---- MODULE Spec2Model ----
(***************************************************************************)
(* NpVidTool (src/np_vid_viewer.py): alignment of thermal-camera frames    *)
(* with melt pool readings, rendering of the frame buffer, interactive     *)
(* playback and export.                                                    *)
(*                                                                         *)
(* Python indices are 0-based and are kept 0-based in the state            *)
(* (mp_data_index, frame_num, i, the frame index in a matched record);    *)
(* TLA+ sequences are 1-based, so element k of an array a is a[k + 1].     *)
(*                                                                         *)
(* The three np.load calls of generate_video (lines 62-78), with the file  *)
(* dialogs and the withdraw() calls around them, are the array loading     *)
(* collaborator: the arrays they return are the inputs of the model,       *)
(* fixed by the initial state, and loading itself is taken to succeed.     *)
(***************************************************************************)
EXTENDS Integers, Sequences, FiniteSets, TLC

\* Bounds of the inputs.
MaxFrames == 3
MaxTime == 2
MaxReadings == 3
MaxPlayFrames == 12

\* Program constants.
SeekStep == 10
LastField == 4
ZeroLevelThreshold == 180
MaxTempThreshold == 700

VARIABLES
    temp_data,                 \* N thermal frames, each a tuple of pixel values
    video_timestamps,          \* thermal camera timestamps
    meltpool_data,             \* M readings, each a row <<timestamp, x, y, z, area, ...>>
    mp_data_on_vid,
    remove_top_reflection,
    remove_bottom_reflection,
    video_array_is_none,       \* self.video_array is None
    video_array,               \* self.video_array when it is a list
    lower_bounds,              \* generate_video's lower_bounds, <<>> while not computed
    matched_array,
    mp_data_index,
    used_index,                \* history: the mp_data_index each matched record was built with
    pc,                        \* "idle", "match", "render", "play", "save"
    entry,                     \* the method the caller invoked
    i,                         \* loop counter of the running loop
    err,                       \* the exception that ended the last call, or NoError
    frame_num,
    pause,
    shown,                     \* source frame of the image last given to imshow, -1 if none
    window_open,
    last_key,                  \* history: the key the last waitKey of this call returned
    uninterrupted,             \* history: every waitKey of this call returned no key
    writer,                    \* "none", "open", "released"
    written,                   \* frames written to the video destination
    playback_speed,
    realtime_framerate,
    framerate

inputs == <<temp_data, video_timestamps, meltpool_data, mp_data_on_vid,
            remove_top_reflection, remove_bottom_reflection>>
align == <<matched_array, mp_data_index, used_index>>
buffer == <<video_array_is_none, video_array, lower_bounds>>
play == <<frame_num, pause, shown, window_open, last_key, uninterrupted>>
save == <<writer, written, playback_speed, realtime_framerate, framerate>>
ctl == <<pc, entry, i, err>>
vars == <<inputs, align, buffer, play, save, ctl>>

NoError == [type |-> "none", at |-> "none"]
Raised(type, at) == [type |-> type, at |-> at]

\* ---------------------------------------------------------------- inputs

\* Non-decreasing timestamp sequences of length n over 0..MaxTime.
MonoSeqs(n) ==
    {s \in [1..n -> 0..MaxTime] : \A a \in 1..(n - 1) : s[a] <= s[a + 1]}

\* n thermal frames of one column and three rows each: a cold reflection at
\* the top, the part, and a hot region at the bottom.
TempData(n) ==
    [k \in 1..n |-> <<ZeroLevelThreshold - k, 300 + k, MaxTempThreshold + k>>]

\* M readings with the given timestamps and F fields per row; the fields after
\* the timestamp are distinct per row and per column.
Readings(ts, F) ==
    [r \in 1..Len(ts) |-> [f \in 1..F |-> IF f = 1 THEN ts[r] ELSE 10 * r + (f - 1)]]

FieldCounts == {LastField, LastField + 1, LastField + 2}

Keys == {"q", "k", "l", "j", "none"}

PlaybackSpeeds == {1, 15}
RealtimeFramerates == {4}

\* ------------------------------------------------------- Python indexing

\* a[k] on a list or array of length n succeeds.
IndexOK(n, k) == k >= -n /\ k < n

\* The 1-based position a[k] reads (negative k counts from the end).
Position(n, k) == IF k >= 0 THEN k + 1 ELSE n + k + 1

\* np.amax of a frame.
Amax(frame) == CHOOSE v \in {frame[a] : a \in 1..Len(frame)} :
                   \A a \in 1..Len(frame) : frame[a] <= v

\* ------------------------------------------------- match_vid_to_meltpool

\* A mutant of NextReadingDue: strict comparison.
NextReadingDueStrict(vts, mp, p, k) ==
    p + 1 < Len(mp) /\ vts[k + 1] > mp[p + 2][1]

\* The two nested conditions of lines 200-202, for frame k and pointer p.
NextReadingDue(vts, mp, p, k) ==
    p + 1 < Len(mp) /\ vts[k + 1] >= mp[p + 2][1]

\* A mutant of AdvancePointer: the bound of the pointer kept with a modulo.
AdvancePointerWrap(vts, mp, p, k) ==
    IF Len(mp) = 0 \/ k >= Len(vts) THEN p
    ELSE IF vts[k + 1] >= mp[((p + 1) % Len(mp)) + 1][1]
         THEN (p + 1) % Len(mp) ELSE p

\* A mutant of AdvancePointer: the timestamps are not compared.
AdvancePointerNoTimeCheck(vts, mp, p, k) ==
    IF p + 1 < Len(mp) THEN p + 1 ELSE p

\* A mutant of AdvancePointer: the bound check is off by one.
AdvancePointerPastEnd(vts, mp, p, k) ==
    IF p + 1 <= Len(mp) /\ (p + 1 = Len(mp) \/ vts[k + 1] >= mp[p + 2][1])
    THEN p + 1 ELSE p

\* Lines 200-203: mp_data_index after frame k's test (one test, no loop).
AdvancePointer(vts, mp, p, k) ==
    IF NextReadingDue(vts, mp, p, k) THEN p + 1 ELSE p

\* A mutant of MatchedRecord: the loop counter is recorded one too high.
MatchedRecordOffByOne(k, vts, mp, p, max_temp) ==
    <<k + 1, vts[k + 1], mp[p + 1][1], mp[p + 1][2], mp[p + 1][3],
      mp[p + 1][4], mp[p + 1][5], max_temp>>

\* Lines 204-211: the record appended for frame k with pointer p.
MatchedRecord(k, vts, mp, p, max_temp) ==
    <<k, vts[k + 1], mp[p + 1][1], mp[p + 1][2], mp[p + 1][3],
      mp[p + 1][4], mp[p + 1][5], max_temp>>

\* Line 201 reads video_timestamps[i] only when the outer test of line 200 holds.
TestRaises(k) ==
    /\ mp_data_index + 1 < Len(meltpool_data)
    /\ ~IndexOK(Len(video_timestamps), k)

\* Lines 204-211 read video_timestamps[i] and meltpool_data[p][0..4].
AppendRaises(k, p) ==
    \/ ~IndexOK(Len(video_timestamps), k)
    \/ ~IndexOK(Len(meltpool_data), p)
    \/ ~IndexOK(Len(meltpool_data[p + 1]), LastField)

\* A call starts with fresh locals: frame_num, pause and the image shown belong
\* to one play_video call, the writer and what it wrote to one save_video call.
FreshPlay ==
    /\ frame_num' = 0
    /\ pause' = FALSE
    /\ shown' = -1
    /\ last_key' = "none"
    /\ uninterrupted' = TRUE
    /\ UNCHANGED window_open
FreshSave ==
    /\ writer' = "none"
    /\ written' = <<>>
    /\ playback_speed' = 0
    /\ realtime_framerate' = 0
    /\ framerate' = 0

\* Lines 80-82 and 188-190: the buffer becomes an empty list, alignment starts.
GenerateBegin ==
    /\ video_array_is_none' = FALSE
    /\ video_array' = <<>>
    /\ lower_bounds' = <<>>
    /\ matched_array' = <<>>
    /\ mp_data_index' = 0
    /\ used_index' = <<>>
    /\ pc' = "match"
    /\ i' = 0
    /\ err' = NoError

\* Lines 127-131.
PlayBegin ==
    /\ window_open' = TRUE
    /\ frame_num' = 0
    /\ pause' = FALSE
    /\ shown' = -1
    /\ last_key' = "none"
    /\ uninterrupted' = TRUE
    /\ pc' = "play"
    /\ i' = 0

\* Lines 157-168; temp_data[0] of an empty array raises IndexError.
SaveBegin ==
    IF Len(temp_data) = 0
    THEN /\ err' = Raised("IndexError", "save_video")
         /\ pc' = "idle"
         /\ i' = 0
         /\ FreshSave
    ELSE /\ \E speed \in PlaybackSpeeds, rate \in RealtimeFramerates :
                /\ playback_speed' = speed
                /\ realtime_framerate' = rate
                /\ framerate' = speed * rate
         /\ writer' = "open"
         /\ written' = <<>>
         /\ pc' = "save"
         /\ i' = 0
         /\ err' = NoError

\* generate_video() called by the user.
GenerateVideo ==
    /\ pc = "idle"
    /\ entry' = "generate_video"
    /\ GenerateBegin
    /\ FreshPlay
    /\ FreshSave
    /\ UNCHANGED inputs

\* One iteration of the loop of lines 191-212.
MatchStep ==
    /\ pc = "match"
    /\ i < Len(temp_data)
    /\ LET max_temp == Amax(temp_data[i + 1])
       IN IF TestRaises(i)
          THEN /\ err' = Raised("IndexError", "match_vid_to_meltpool")
               /\ pc' = "idle"
               /\ UNCHANGED <<align, i>>
          ELSE LET p == AdvancePointer(video_timestamps, meltpool_data, mp_data_index, i)
               IN /\ mp_data_index' = p
                  /\ IF AppendRaises(i, p)
                     THEN /\ err' = Raised("IndexError", "match_vid_to_meltpool")
                          /\ pc' = "idle"
                          /\ UNCHANGED <<matched_array, used_index, i>>
                     ELSE /\ matched_array' = Append(matched_array,
                                 MatchedRecord(i, video_timestamps, meltpool_data, p, max_temp))
                          /\ used_index' = Append(used_index, p)
                          /\ i' = i + 1
                          /\ UNCHANGED <<pc, err>>
    /\ UNCHANGED <<inputs, buffer, play, save, entry>>

\* find_lower_bounds: one boundary row per column, the first row at which every
\* frame is at or above the max-temperature threshold (the frame height when
\* there is none).
FindLowerBounds(data) ==
    IF Len(data) = 0 THEN <<>>
    ELSE LET height == Len(data[1])
             hot == {r \in 0..(height - 1) :
                        \A k \in 1..Len(data) : data[k][r + 1] >= MaxTempThreshold}
         IN <<IF hot = {} THEN height
              ELSE CHOOSE r \in hot : \A q \in hot : r <= q>>

\* The loop of lines 191-212 ends; generate_video goes on to lines 84-92.
MatchExit ==
    /\ pc = "match"
    /\ i = Len(temp_data)
    /\ lower_bounds' = IF remove_bottom_reflection
                       THEN FindLowerBounds(temp_data) ELSE <<>>
    /\ pc' = "render"
    /\ i' = 0
    /\ UNCHANGED <<inputs, align, video_array_is_none, video_array>>
    /\ UNCHANGED <<play, save, entry, err>>

\* ------------------------------------------------------- generate_video

\* A mutant of Pipeline: the bottom reflection is removed before the top one.
PipelineBottomFirst ==
    <<"copy">>
    \o (IF remove_bottom_reflection THEN <<"remove_bottom">> ELSE <<>>)
    \o (IF remove_top_reflection THEN <<"remove_top">> ELSE <<>>)
    \o <<"normalize", "applyColorMap">>
    \o (IF mp_data_on_vid THEN <<"add_mp_data_to_img">> ELSE <<>>)

\* The steps lines 93-116 apply to one frame, in the order they are applied.
Pipeline ==
    <<"copy">>
    \o (IF remove_top_reflection THEN <<"remove_top">> ELSE <<>>)
    \o (IF remove_bottom_reflection THEN <<"remove_bottom">> ELSE <<>>)
    \o <<"normalize", "applyColorMap">>
    \o (IF mp_data_on_vid THEN <<"add_mp_data_to_img">> ELSE <<>>)

\* Lines 268-311: the five values add_mp_data_to_img writes for frame k.
OverlayText(k) ==
    <<matched_array[k + 1][4], matched_array[k + 1][5], matched_array[k + 1][6],
      matched_array[k + 1][7], matched_array[k + 1][8]>>

\* A mutant of CopyFrame: the copy is left out, the frame is the source's own.
CopyFrameAlias(frame) == [owned |-> FALSE, pixels |-> frame]

\* Line 93: frame.copy(), an array the loop body owns.
CopyFrame(frame) == [owned |-> TRUE, pixels |-> frame]

\* remove_top: a pixel of the upper half at or below the zero-level threshold
\* or at or above the max-temperature threshold is set to 0.
RemoveTop(pixels) ==
    [r \in 1..Len(pixels) |->
        IF /\ r - 1 < Len(pixels) \div 2
           /\ (pixels[r] <= ZeroLevelThreshold \/ pixels[r] >= MaxTempThreshold)
        THEN 0 ELSE pixels[r]]

\* remove_bottom: every pixel at or below the column's boundary row is set to 0.
RemoveBottom(pixels, bounds) ==
    [r \in 1..Len(pixels) |-> IF r - 1 >= bounds[1] THEN 0 ELSE pixels[r]]

\* Lines 100-106: the frame after the reflection steps that are switched on.
Masked(pixels) ==
    LET top == IF remove_top_reflection THEN RemoveTop(pixels) ELSE pixels
    IN IF remove_bottom_reflection THEN RemoveBottom(top, lower_bounds) ELSE top

\* Line 109: cv2.normalize(..., 0, 255, NORM_MINMAX, CV_8UC1) of one frame.
Normalize(pixels) ==
    LET values == {pixels[r] : r \in 1..Len(pixels)}
        lo == CHOOSE v \in values : \A w \in values : v <= w
        hi == CHOOSE v \in values : \A w \in values : w <= v
    IN [r \in 1..Len(pixels) |->
           IF hi = lo THEN 0
           ELSE ((pixels[r] - lo) * 255 * 2 + (hi - lo)) \div (2 * (hi - lo))]

\* Line 112: cv2.applyColorMap, each intensity becomes its palette colour.
ApplyColorMap(pixels) == [r \in 1..Len(pixels) |-> <<"inferno", pixels[r]>>]

\* Lines 93-116: the image rendered from frame k, whose masked pixels are given.
RenderedFrame(k, masked) ==
    [frame |-> k,
     ops |-> Pipeline,
     pixels |-> ApplyColorMap(Normalize(masked)),
     text |-> IF mp_data_on_vid THEN OverlayText(k) ELSE <<>>]

\* One iteration of the loop of lines 92-122. The reflection steps write into
\* the array they are given: the source's own frame when it was not copied.
RenderStep ==
    /\ pc = "render"
    /\ i < Len(temp_data)
    /\ LET frame == CopyFrame(temp_data[i + 1])
           masked == Masked(frame.pixels)
       IN /\ temp_data' = IF frame.owned THEN temp_data
                          ELSE [temp_data EXCEPT ![i + 1] = masked]
          /\ video_array' = Append(video_array, RenderedFrame(i, masked))
    /\ i' = i + 1
    /\ UNCHANGED <<video_timestamps, meltpool_data, mp_data_on_vid,
                   remove_top_reflection, remove_bottom_reflection>>
    /\ UNCHANGED <<align, video_array_is_none, lower_bounds, play, save, pc, entry, err>>

\* The loop of lines 92-122 ends: generate_video returns to its caller.
RenderExit ==
    /\ pc = "render"
    /\ i = Len(temp_data)
    /\ IF entry = "play_video"
       THEN PlayBegin /\ UNCHANGED <<save, err>>
       ELSE IF entry = "save_video"
            THEN SaveBegin /\ UNCHANGED play
            ELSE pc' = "idle" /\ i' = 0 /\ UNCHANGED <<play, save, err>>
    /\ UNCHANGED <<inputs, align, buffer, entry>>

\* ----------------------------------------------------------- play_video

\* play_video() called by the user (lines 124-131).
PlayVideo ==
    /\ pc = "idle"
    /\ entry' = "play_video"
    /\ IF video_array_is_none
       THEN GenerateBegin /\ FreshPlay /\ FreshSave
       ELSE /\ PlayBegin
            /\ err' = NoError
            /\ FreshSave
            /\ UNCHANGED <<align, buffer>>
    /\ UNCHANGED inputs

\* A mutant of NextFrameNum: the advance is another branch of the key chain,
\* so a tick that carries a seek does not advance.
NextFrameNumSeekOnly(key, fn, paused) ==
    IF key = "l" THEN fn + SeekStep
    ELSE IF key = "j" THEN fn - SeekStep
    ELSE IF ~paused THEN fn + 1 ELSE fn

\* A mutant of NextFrameNum: the advance does not look at pause.
NextFrameNumIgnorePause(key, fn, paused) ==
    IF key = "l" THEN fn + SeekStep + 1
    ELSE IF key = "j" THEN fn - SeekStep + 1
    ELSE fn + 1

\* Lines 134-146: frame_num after the key and the advance.
NextFrameNum(key, fn, paused) ==
    LET sought == IF key = "l" THEN fn + SeekStep
                  ELSE IF key = "j" THEN fn - SeekStep
                  ELSE fn
    IN IF ~paused THEN sought + 1 ELSE sought

\* A mutant of NextPause: the seek-forward key toggles too.
NextPauseOnSeek(key, paused) == IF key \in {"k", "l"} THEN ~paused ELSE paused

\* Lines 136-137: pause after the key.
NextPause(key, paused) == IF key = "k" THEN ~paused ELSE paused

\* One iteration of the loop of lines 132-149 with the key waitKey returned.
PlayTick(key) ==
    /\ pc = "play"
    /\ last_key' = key
    /\ uninterrupted' = (uninterrupted /\ key = "none")
    /\ IF key = "q"
       THEN /\ window_open' = FALSE
            /\ pc' = "idle"
            /\ UNCHANGED <<frame_num, pause, shown, err>>
       ELSE LET paused == NextPause(key, pause)
                fn == NextFrameNum(key, frame_num, paused)
            IN /\ pause' = paused
               /\ frame_num' = fn
               /\ IF IndexOK(Len(video_array), fn)
                  THEN /\ shown' = video_array[Position(Len(video_array), fn)].frame
                       /\ UNCHANGED <<pc, err, window_open>>
                  ELSE /\ err' = Raised("IndexError", "play_video")
                       /\ pc' = "idle"
                       /\ UNCHANGED <<shown, window_open>>
    /\ UNCHANGED <<inputs, align, buffer, save, entry, i>>

\* ----------------------------------------------------------- save_video

\* save_video() called by the user (lines 153-168).
SaveVideo ==
    /\ pc = "idle"
    /\ entry' = "save_video"
    /\ IF video_array_is_none
       THEN GenerateBegin /\ FreshPlay /\ FreshSave
       ELSE SaveBegin /\ FreshPlay /\ UNCHANGED <<align, buffer>>
    /\ UNCHANGED inputs

\* One iteration of the loop of lines 170-181; the write may raise.
SaveWrite ==
    /\ pc = "save"
    /\ i < Len(video_array)
    /\ \E ok \in BOOLEAN :
          IF ok
          THEN /\ written' = Append(written, video_array[i + 1])
               /\ i' = i + 1
               /\ UNCHANGED <<pc, err>>
          ELSE /\ err' = Raised("WriteError", "save_video")
               /\ pc' = "idle"
               /\ UNCHANGED <<written, i>>
    /\ UNCHANGED <<inputs, align, buffer, play, entry>>
    /\ UNCHANGED <<writer, playback_speed, realtime_framerate, framerate>>

\* The loop of lines 170-181 ends; line 183 releases the writer.
SaveExit ==
    /\ pc = "save"
    /\ i = Len(video_array)
    /\ writer' = "released"
    /\ pc' = "idle"
    /\ UNCHANGED <<inputs, align, buffer, play, entry, i, err>>
    /\ UNCHANGED <<written, playback_speed, realtime_framerate, framerate>>

\* ------------------------------------------------------- specifications

\* The object after __init__ (lines 53-58), before any call.
Constructed ==
    /\ video_array_is_none = TRUE
    /\ video_array = <<>>
    /\ lower_bounds = <<>>
    /\ matched_array = <<>>
    /\ mp_data_index = 0
    /\ used_index = <<>>
    /\ pc = "idle"
    /\ entry = "none"
    /\ i = 0
    /\ err = NoError
    /\ frame_num = 0
    /\ pause = FALSE
    /\ shown = -1
    /\ window_open = FALSE
    /\ last_key = "none"
    /\ uninterrupted = TRUE
    /\ writer = "none"
    /\ written = <<>>
    /\ playback_speed = 0
    /\ realtime_framerate = 0
    /\ framerate = 0

\* Sessions for playback and export: up to MaxPlayFrames frames one time unit
\* apart, no reading or two readings, every combination of the flags.
Init ==
    /\ \E n \in 0..MaxPlayFrames :
          /\ temp_data = TempData(n)
          /\ video_timestamps = [k \in 1..n |-> k - 1]
    /\ meltpool_data \in {<<>>, Readings(<<0, 2>>, LastField + 1)}
    /\ mp_data_on_vid \in BOOLEAN
    /\ remove_top_reflection \in BOOLEAN
    /\ remove_bottom_reflection \in BOOLEAN
    /\ Constructed

Next ==
    \/ GenerateVideo
    \/ MatchStep
    \/ MatchExit
    \/ RenderStep
    \/ RenderExit
    \/ PlayVideo
    \/ \E key \in Keys : PlayTick(key)
    \/ SaveVideo
    \/ SaveWrite
    \/ SaveExit

Spec == Init /\ [][Next]_vars

\* Inputs of the alignment: every non-decreasing pair of timestamp streams
\* within the bounds, and arrays whose shapes disagree with the documented
\* ones (a timestamp too few or too many, a field too few or too many).
InitAlign ==
    /\ \E n \in 0..MaxFrames, d \in {-1, 0, 1}, m \in 0..MaxReadings, F \in FieldCounts :
          /\ n + d >= 0
          /\ (d # 0 \/ m = 0) => F = LastField + 1
          /\ temp_data = TempData(n)
          /\ video_timestamps \in MonoSeqs(n + d)
          /\ \E ts \in MonoSeqs(m) : meltpool_data = Readings(ts, F)
    /\ \E flag \in BOOLEAN :
          /\ mp_data_on_vid = flag
          /\ remove_top_reflection = flag
          /\ remove_bottom_reflection = flag
    /\ Constructed

NextAlign ==
    \/ GenerateVideo
    \/ MatchStep
    \/ MatchExit
    \/ RenderStep
    \/ RenderExit

SpecAlign == InitAlign /\ [][NextAlign]_vars

\* --------------------------------------------------- alignment properties

N == Len(temp_data)
M == Len(meltpool_data)

\* The documented shapes: one timestamp per frame, LastField + 1 fields per reading.
ValidShapes ==
    /\ Len(video_timestamps) = N
    /\ \A r \in 1..M : Len(meltpool_data[r]) = LastField + 1

\* Valid inputs: the documented shapes and at least one reading.
ValidInputs == ValidShapes /\ M >= 1

\* generate_video has run match_vid_to_meltpool and the call has left it.
AlignmentOver == ~video_array_is_none /\ pc # "match"

\* The pointer frame k (1-based record k) started from.
PointerBefore(k) == IF k = 1 THEN 0 ELSE used_index[k - 1]

\* C1: for valid inputs, the record emitted for every frame uses a sensor
\* index p that was advanced as far as the timestamps allow: p + 1 = M, or
\* the frame's video timestamp is earlier than the timestamp of reading p + 1.
C1_PointerFullyAdvanced ==
    ValidInputs =>
        \A k \in 1..Len(used_index) :
            \/ used_index[k] + 1 = M
            \/ video_timestamps[k] < meltpool_data[used_index[k] + 2][1]

\* C2: for valid inputs, while alignment runs it has emitted one record per
\* processed frame, when it has finished it has emitted exactly N records, and
\* record k carries frame index k and video_timestamp[k].
C2_OneRecordPerFrame ==
    ValidInputs =>
        /\ pc = "match" => Len(matched_array) = i
        /\ AlignmentOver => Len(matched_array) = N /\ err.at # "match_vid_to_meltpool"
        /\ \A k \in 1..Len(matched_array) :
              /\ matched_array[k][1] = k - 1
              /\ matched_array[k][2] = video_timestamps[k]

\* C2 witness: alignment has finished on valid inputs with MaxFrames frames.
C2_Witness ==
    /\ ValidInputs
    /\ AlignmentOver
    /\ N = MaxFrames
    /\ Len(matched_array) = MaxFrames

\* C3: the sensor index used to build the matched records never regresses
\* across increasing frame index.
C3_PointerNonDecreasing ==
    \A a \in 1..Len(used_index) : \A b \in 1..Len(used_index) :
        a < b => used_index[a] <= used_index[b]

\* C3 witness: three records, the pointer advanced between the first and the
\* last and stayed on the last reading for a frame.
C3_Witness ==
    /\ Len(used_index) = 3
    /\ used_index[1] = 0
    /\ used_index[2] = 1
    /\ used_index[3] = 1
    /\ M = 2

\* C4 as stated: every matched record's sensor timestamp is at most its own
\* video timestamp.
C4_NoFutureReading ==
    ValidInputs =>
        \A k \in 1..Len(matched_array) : matched_array[k][3] <= matched_array[k][2]

\* C4 amended: every matched record built after the pointer has advanced
\* (sensor index >= 1), and every matched record when the first reading is not
\* later than the first frame, has a sensor timestamp at most its own video
\* timestamp; a record built with reading 0 carries it whatever its timestamp.
C4_NoFutureReadingOnceAdvanced ==
    \A k \in 1..Len(matched_array) :
        (used_index[k] >= 1 \/ meltpool_data[1][1] <= video_timestamps[1])
            => matched_array[k][3] <= matched_array[k][2]

\* C4 witness: a frame earlier than the first reading is matched to reading 0,
\* and a later frame is matched to a reading the pointer advanced to.
C4_Witness ==
    /\ ValidInputs
    /\ Len(matched_array) >= 2
    /\ used_index[1] = 0
    /\ matched_array[1][3] > matched_array[1][2]
    /\ \E k \in 2..Len(matched_array) :
          used_index[k] >= 1 /\ matched_array[k][3] <= matched_array[k][2]

\* C5: when a frame's video timestamp equals the timestamp of the reading after
\* the pointer it started from, the pointer advances while that frame is
\* processed: the frame's record is built from reading p + 1, not reading p.
C5_TieAdvances ==
    \A k \in 1..Len(used_index) :
        LET p == PointerBefore(k)
        IN (p + 1 < M /\ video_timestamps[k] = meltpool_data[p + 2][1])
               => /\ used_index[k] = p + 1
                  /\ matched_array[k][3] = meltpool_data[p + 2][1]
                  /\ matched_array[k][4] = meltpool_data[p + 2][2]

\* C5 witness: a frame after the first whose timestamp equals the timestamp of
\* the next reading, which is later than the current reading's, was processed.
C5_Witness ==
    \E k \in 2..Len(used_index) :
        LET p == PointerBefore(k)
        IN /\ p + 1 < M
           /\ video_timestamps[k] = meltpool_data[p + 2][1]
           /\ meltpool_data[p + 1][1] < meltpool_data[p + 2][1]
           /\ video_timestamps[k - 1] < video_timestamps[k]
           /\ used_index[k] = p + 1

\* C6: with an empty sensor stream, for every frame count, alignment fails
\* (any exception raised by match_vid_to_meltpool counts as the empty-stream
\* error) and no rendered frame has been appended to the frame buffer.
C6_EmptySensorStreamFails ==
    (M = 0 /\ AlignmentOver) =>
        /\ err.at = "match_vid_to_meltpool"
        /\ video_array = <<>>

\* C7: with at least one reading the sensor pointer never exceeds M - 1; once
\* a record uses the last reading every later record uses it too; with a
\* single reading every record uses reading 0; and on valid inputs alignment
\* raises no error.
C7_PointerInRange ==
    M >= 1 =>
        /\ mp_data_index <= M - 1
        /\ \A k \in 1..Len(used_index) : used_index[k] <= M - 1
        /\ \A a \in 1..Len(used_index) : \A b \in 1..Len(used_index) :
              (a < b /\ used_index[a] = M - 1) => used_index[b] = M - 1
        /\ M = 1 => \A k \in 1..Len(used_index) :
                        used_index[k] = 0 /\ matched_array[k][4] = meltpool_data[1][2]
        /\ ValidShapes => err.at # "match_vid_to_meltpool"
        /\ (ValidShapes /\ AlignmentOver) => Len(used_index) = N

\* C7 witness: the last of several readings was reached before the last frame
\* and the frames after it reuse it; alignment has finished without error.
C7_Witness ==
    /\ ValidInputs
    /\ AlignmentOver
    /\ err = NoError
    /\ M = 2
    /\ Len(used_index) = 3
    /\ used_index[1] = 1
    /\ used_index[3] = 1

\* The shapes disagree: a timestamp too few or too many, or readings without
\* LastField + 1 fields.
ShapeMismatch == M >= 1 /\ ~ValidShapes

\* C8: when the shapes disagree and there is a frame to align, alignment
\* fails (any exception raised by match_vid_to_meltpool counts as the shape
\* error), it has emitted no complete matched sequence and no frame has been
\* rendered.
C8_ShapeMismatchFails ==
    (ShapeMismatch /\ N >= 1 /\ AlignmentOver) =>
        /\ err.at = "match_vid_to_meltpool"
        /\ Len(matched_array) < N
        /\ video_array = <<>>

\* ---------------------------------------------------- playback properties

\* play_video runs on a complete buffer: one rendered frame per thermal frame.
BufferComplete == ~video_array_is_none /\ Len(video_array) = N

\* C9: in play_video, with at least one frame, whenever a frame has been
\* fetched and presented the current frame position is in 0..N-1 and the
\* frame presented is the frame at that position.
C9_PositionClamped ==
    (N >= 1 /\ BufferComplete /\ pc = "play" /\ shown # -1) =>
        /\ frame_num \in 0..(N - 1)
        /\ shown = frame_num

\* C10: no sequence of seek, toggle or no-input ticks makes play_video raise
\* an error to its caller.
C10_PlaybackNeverRaises ==
    (N >= 1 /\ BufferComplete) => err.at # "play_video"

\* The advance of a tick: 1 while Playing, 0 while Paused.
Advance(paused) == IF paused THEN 0 ELSE 1

\* C11: the playback loop is left only on a tick whose key is the quit key,
\* and a tick whose key is the quit key leaves the loop without presenting a
\* frame.
C11_EndsOnlyByQuit ==
    [][(N >= 1 /\ BufferComplete /\ pc = "play") =>
          /\ pc' # "play" => last_key' = "q"
          /\ last_key' = "q" => (pc' = "idle" /\ shown' = shown)]_vars

\* C12 as stated: a tick carrying a seek-forward key changes the frame position
\* by exactly +SeekStep and one carrying a seek-backward key by exactly
\* -SeekStep, whether Playing or Paused (checked on the ticks that present the
\* frame sought).
C12_SeekByTen ==
    [][(BufferComplete /\ pc = "play" /\ pc' = "play") =>
          /\ last_key' = "l" => frame_num' = frame_num + SeekStep
          /\ last_key' = "j" => frame_num' = frame_num - SeekStep]_vars

\* C12 amended: a tick carrying a seek key changes the frame position by the
\* seek (+SeekStep or -SeekStep) plus the tick's own advance, which is 1 while
\* Playing and 0 while Paused; the seek keys leave the play/pause state alone.
C12_SeekByTenPlusAdvance ==
    [][pc = "play" =>
          /\ last_key' = "l" => frame_num' = frame_num + SeekStep + Advance(pause)
          /\ last_key' = "j" => frame_num' = frame_num - SeekStep + Advance(pause)
          /\ last_key' \in {"l", "j"} => pause' = pause]_vars

\* C12 witness: a seek forward on the first tick, while Playing, has presented
\* the frame at position SeekStep + 1.
C12_Witness ==
    /\ pc = "play"
    /\ last_key = "l"
    /\ ~pause
    /\ frame_num = SeekStep + 1
    /\ shown = SeekStep + 1

\* C13: a tick with no key advances the frame position by exactly 1 while
\* Playing, leaves it unchanged while Paused, and leaves the play/pause state
\* unchanged.
C13_NoInputTick ==
    [][(pc = "play" /\ last_key' = "none") =>
          /\ frame_num' = frame_num + Advance(pause)
          /\ pause' = pause]_vars

\* C13 witness: a tick with no key while Paused has presented frame 2 again,
\* after two ticks with no key while Playing and a toggle.
C13_Witness ==
    /\ pc = "play"
    /\ last_key = "none"
    /\ pause
    /\ ~uninterrupted
    /\ frame_num = 2
    /\ shown = 2

\* C14: playback starts Playing at position 0; the toggle key switches Playing
\* to Paused and Paused to Playing; no other key and no tick without a key
\* changes the play/pause state.
C14_ToggleOnly ==
    [][/\ (pc # "play" /\ pc' = "play") => (~pause' /\ frame_num' = 0)
       /\ pc = "play" => pause' = (IF last_key' = "k" THEN ~pause ELSE pause)]_vars

\* C14 witness: a second toggle has switched Paused back to Playing.
C14_Witness ==
    /\ pc = "play"
    /\ last_key = "k"
    /\ ~pause
    /\ frame_num = 1
    /\ shown = 1

\* ------------------------------------------------------ export properties

\* C15: once save_video has opened the video destination, the destination is
\* released when the call ends, on every exit path.
C15_WriterAlwaysReleased ==
    (entry = "save_video" /\ pc = "idle" /\ writer # "none") => writer = "released"

\* C16: a save_video call that completes has written every rendered frame
\* exactly once and in frame order, N frames in all, at frame rate
\* playback_speed * realtime_framerate.
C16_SaveWritesAllFrames ==
    (entry = "save_video" /\ pc = "idle" /\ writer = "released" /\ err = NoError) =>
        /\ written = video_array
        /\ Len(written) = N
        /\ \A k \in 1..Len(written) : written[k].frame = k - 1
        /\ framerate = playback_speed * realtime_framerate

\* ---------------------------------------------------- rendering properties

\* The place of a step in the documented order.
Rank(op) ==
    CASE op = "copy" -> 0
      [] op = "remove_top" -> 1
      [] op = "remove_bottom" -> 2
      [] op = "normalize" -> 3
      [] op = "applyColorMap" -> 4
      [] op = "add_mp_data_to_img" -> 5

\* The steps of a rendered frame, as a set.
Steps(img) == {img.ops[a] : a \in 1..Len(img.ops)}

\* C17: for every rendered frame and every combination of the flags, the steps
\* were applied in the order top-reflection, bottom-reflection, normalization,
\* colour mapping, overlay; a step that is switched off was skipped, and
\* normalization and colour mapping were always applied.
C17_PipelineOrder ==
    \A k \in 1..Len(video_array) :
        LET img == video_array[k]
        IN /\ \A a \in 1..Len(img.ops) : \A b \in 1..Len(img.ops) :
                  a < b => Rank(img.ops[a]) < Rank(img.ops[b])
           /\ ("remove_top" \in Steps(img)) = remove_top_reflection
           /\ ("remove_bottom" \in Steps(img)) = remove_bottom_reflection
           /\ ("add_mp_data_to_img" \in Steps(img)) = mp_data_on_vid
           /\ {"normalize", "applyColorMap"} \subseteq Steps(img)

\* C17 witness: with the three flags on, every frame of a session of at least
\* two frames has been rendered through all the steps.
C17_Witness ==
    /\ remove_top_reflection /\ remove_bottom_reflection /\ mp_data_on_vid
    /\ N >= 2
    /\ BufferComplete
    /\ \A k \in 1..N : Len(video_array[k].ops) = 6

\* C18: no step of generate_video, play_video or save_video changes the raw
\* thermal frames, the video timestamps or the sensor readings.
C18_SourceUnchanged ==
    [][/\ temp_data' = temp_data
       /\ video_timestamps' = video_timestamps
       /\ meltpool_data' = meltpool_data]_vars

\* C18 witness: with both reflection steps on, which change the pixels of
\* frame 0, the buffer was rendered and a save_video call has written it out.
C18_Witness ==
    /\ remove_top_reflection /\ remove_bottom_reflection
    /\ N >= 1
    /\ BufferComplete
    /\ RemoveBottom(RemoveTop(temp_data[1]), lower_bounds) # temp_data[1]
    /\ writer = "released"
    /\ Len(written) = N

\* C19: whenever play_video or save_video consumes the rendered-frame buffer,
\* the buffer is complete: exactly N frames, frame k rendered from thermal
\* frame k.
C19_BufferCompleteWhenConsumed ==
    pc \in {"play", "save"} =>
        /\ Len(video_array) = N
        /\ \A k \in 1..Len(video_array) : video_array[k].frame = k - 1

\* C20: in playback without any key, the first frame presented is frame 0 and
\* each frame presented after it is the next one, none skipped.
C20_FramesInOrder ==
    [][(N >= 1 /\ BufferComplete /\ pc = "play" /\ uninterrupted' /\ shown' # shown)
          => shown' = shown + 1]_vars

====
